---- MODULE Spec2Model ----
(***************************************************************************)
(* Model of the multi-tenant telemetry pipeline of nats-playground:        *)
(*   - management service   (createOrganizationHandler,                    *)
(*                           registerDeviceHandler, GenerateSASToken)      *)
(*   - ingestion service    (ingestHandler)                                *)
(*   - analysis engine      (consumer loop of main, processMessage)        *)
(*   - data persistence     (the stream it creates at start-up)            *)
(* The broker (NATS JetStream) and the counter store (Redis) are external; *)
(* they are modelled by the documented behaviour of exactly the calls the  *)
(* services make (AddStream, Publish, PullSubscribe/Fetch, Ack, Nak; INCR, *)
(* EXPIRE, DEL, key expiry).                                               *)
(*                                                                         *)
(* Subjects and counter keys are sequences of tokens: "data.orgA.d1.temp1" *)
(* is <<"data","orgA","d1","temp1">>.  Identifiers are single tokens (the  *)
(* broker rejects stream names holding '.', '*' or '>').                   *)
(***************************************************************************)
EXTENDS Integers, Sequences, FiniteSets, TLC

VARIABLES
    streams,      \* broker: stream name -> set of subject patterns
    stored,       \* broker: stream name -> sequence of stored messages
    consumers,    \* broker: durable consumers, each bound to one stream
    status,       \* durable consumer ANALYSIS_ENGINE: per message of its stream
    pc,           \* replica -> position in main's loop / processMessage
    batch,        \* replica -> fetched messages still to process (indices)
    dp,           \* replica -> the DataPoint being processed
    breachCount,  \* replica -> result of rdb.Incr for the current message
    attempted,    \* replica -> record of the current delivery: calls made, outcomes
    counters,     \* counter store: key -> integer (domain = keys present)
    ttl,          \* counter store: keys that carry an expiry
    expiresIn,    \* counter store: key -> minutes left of its expiry
    applied,      \* history: key -> values its Incr calls returned since it was last absent
    alerts,       \* messages published on notifications.<org>.<device>
    events,       \* history: kinds of disturbance seen so far
    crashes,      \* history: number of replica crashes
    resp,         \* last HTTP response of a handler
    tokens,       \* credentials issued so far
    submitted,    \* history: the claims last handed to Encode, and when
    signingKey,   \* management service: is the package variable set
    now,          \* wall clock (hours)
    members,      \* broker: notification instances subscribed in the queue group
    inbox,        \* notification instance -> alerts delivered to it, not yet handled
    handled,      \* notification instance -> alerts processNotification ran for
    audience,     \* history: per alert, the group members at its publication
    sinkStatus,   \* durable consumer DATA_PERSISTENCE: message -> its last decision
    sinkCalls     \* persistence service: the calls of its last processMessage

vars == <<streams, stored, consumers, status, pc, batch, dp, breachCount, attempted,
          counters, ttl, expiresIn, applied, alerts, events, crashes, resp, tokens, submitted, signingKey,
          now, members, inbox, handled, audience, sinkStatus, sinkCalls>>

brokerVars == <<streams, stored, consumers, status>>
replicaVars == <<pc, batch, dp, breachCount, attempted>>
redisVars == <<counters, ttl, expiresIn, applied>>
issuerVars == <<tokens, submitted, signingKey, now>>
notifyVars == <<members, inbox, handled, audience>>
sinkVars == <<sinkStatus, sinkCalls>>

-----------------------------------------------------------------------------
(* Bounds of the model *)
MaxMsgs == 3
MaxCrashes == 1
MaxTokens == 2
MaxTime == 2

(* Program constants *)
Threshold == 80
ConsecutiveBreaches == 3
FetchBatch == 100
TokenValidity == 12
IdleWindow == 5

streamName == "ORG_orgA_STREAM"
analysisConsumer == "ANALYSIS_ENGINE"
persistenceConsumer == "DATA_PERSISTENCE"

Orgs == {"orgA", "orgB"}
DeviceIds == {"d1", "d2"}

Replicas == {1, 2}

NotifyInstances == {1, 2}

NoDP == [organization_id |-> "", device_id |-> "", sensor_name |-> "",
         value |-> 0, timestamp |-> 0]

DataPoint(o, d, s, v) ==
    [organization_id |-> o, device_id |-> d, sensor_name |-> s,
     value |-> v, timestamp |-> 1]

-----------------------------------------------------------------------------
(* Namespace *)

\* fmt.Sprintf("ORG_%s_STREAM", org.ID)
StreamNameOf(org) == "ORG_" \o org \o "_STREAM"

\* fmt.Sprintf("data.%s.>", org.ID)
StreamSubjectsOf(org) == {<<"data", org, ">">>}

\* fmt.Sprintf("data.%s.%s.%s", dp.OrganizationID, dp.DeviceID, dp.SensorName)
IngestSubject(p) == <<"data", p.organization_id, p.device_id, p.sensor_name>>

\* One counter per sensor name, shared by the devices.
RedisKey_PerSensor(p) == <<"breach", "count", "any", p.sensor_name>>

\* fmt.Sprintf("breach:count:%s:%s", dp.DeviceID, dp.SensorName)
RedisKey(p) == <<"breach", "count", p.device_id, p.sensor_name>>

\* fmt.Sprintf("notifications.%s.%s", dp.OrganizationID, dp.DeviceID)
NotificationSubject(p) == <<"notifications", p.organization_id, p.device_id>>

\* Broker subject matching: '*' matches one token, '>' one or more trailing tokens.
RECURSIVE SubjectMatches(_, _)
SubjectMatches(pat, subj) ==
    IF pat = <<>> THEN subj = <<>>
    ELSE IF Head(pat) = ">" THEN Len(pat) = 1 /\ Len(subj) >= 1
    ELSE IF subj = <<>> THEN FALSE
    ELSE /\ (Head(pat) = "*" \/ Head(pat) = Head(subj))
         /\ SubjectMatches(Tail(pat), Tail(subj))

\* The streams whose subject set captures a subject.
StreamsFor(subj) ==
    {n \in DOMAIN streams : \E pat \in streams[n] : SubjectMatches(pat, subj)}

-----------------------------------------------------------------------------
(* Payloads: json.Marshal / json.Unmarshal *)

Marshal(p) == <<"json", p>>
Garbage == <<"raw">>

\* A parser that accepts anything, leaving the zero DataPoint for bytes it cannot read.
Unmarshal_Lenient(data) ==
    IF data[1] = "json" THEN [ok |-> TRUE, dp |-> data[2]]
    ELSE [ok |-> TRUE, dp |-> NoDP]

Unmarshal(data) ==
    IF data[1] = "json" THEN [ok |-> TRUE, dp |-> data[2]]
    ELSE [ok |-> FALSE, dp |-> NoDP]

-----------------------------------------------------------------------------
(* Counter store primitives *)

\* A write of 1 in the place of an increment: earlier increments are lost.
RedisIncr_Overwrite(c, k) == (k :> 1) @@ c

RedisIncr(c, k) ==
    IF k \in DOMAIN c THEN [c EXCEPT ![k] = @ + 1] ELSE c @@ (k :> 1)

RedisDel(c, k) == [x \in DOMAIN c \ {k} |-> c[x]]

\* The record of a value an Incr of key k returned.
Returned(h, k, v) ==
    IF k \in DOMAIN h THEN [h EXCEPT ![k] = Append(@, v)] ELSE h @@ (k :> <<v>>)

\* EXPIRE key seconds: the key's time to live starts anew.
RedisExpire(e, k, window) == [x \in DOMAIN e \cup {k} |-> IF x = k THEN window ELSE e[x]]

-----------------------------------------------------------------------------
(* Decisions of processMessage *)

Breaching(p) == p.sensor_name = "temp1" /\ p.value > Threshold

Resetting(p) == p.sensor_name = "temp1" /\ p.value <= Threshold

\* Off by one: the alert waits for a fourth breaching reading.
ShouldNotify_OffByOne(count) == count > ConsecutiveBreaches

ShouldNotify(count) == count >= ConsecutiveBreaches

\* First remote call of processMessage after a successful parse.
AfterUnmarshal(p) ==
    IF Breaching(p) THEN "incr"
    ELSE IF Resetting(p) THEN "del"
    ELSE "ack"

\* After rdb.Expire: publish when the threshold is reached, else acknowledge.
AfterExpire(count) == IF ShouldNotify(count) THEN "publish" ELSE "ack"

\* The counter is reset whether or not the publish succeeded.
AfterPublish_AlwaysReset(ok) == "del"

\* The reset after a successful publish is forgotten.
AfterPublish_NoReset(ok) == "ack"

\* After js.Publish: the counter is reset only when the publish succeeded.
AfterPublish(ok) == IF ok THEN "del" ELSE "ack"

-----------------------------------------------------------------------------
(* The analysis engine's stream and consumer *)

Log == IF streamName \in DOMAIN stored THEN stored[streamName] ELSE <<>>

\* At-most-once delivery: a message delivered once is never delivered again.
Available_NoRedelivery == {m \in 1..Len(Log) : status[m] = "new"}

Available == {m \in 1..Len(Log) : status[m] \in {"new", "redeliver"}}

RECURSIVE Ascending(_)
Ascending(S) ==
    IF S = {} THEN <<>>
    ELSE LET m == CHOOSE x \in S : \A y \in S : x <= y
         IN  <<m>> \o Ascending(S \ {m})

Min(a, b) == IF a <= b THEN a ELSE b

\* sub.Fetch(100, MaxWait(1s)): the pending messages, oldest first, at most 100.
FetchResult ==
    LET all == Ascending(Available)
    IN  SubSeq(all, 1, Min(FetchBatch, Len(all)))

\* The loop gives up the batch after a message and fetches again.
Advance_AbandonBatch(i) ==
    /\ batch' = [batch EXCEPT ![i] = <<>>]
    /\ pc' = [pc EXCEPT ![i] = "fetch"]
    /\ dp' = [dp EXCEPT ![i] = NoDP]
    /\ breachCount' = [breachCount EXCEPT ![i] = 0]
    /\ attempted' = [attempted EXCEPT ![i] = {}]

\* The loop moves to the next message of the batch, or fetches again.
Advance(i) ==
    /\ batch' = [batch EXCEPT ![i] = Tail(@)]
    /\ pc' = [pc EXCEPT ![i] = IF Tail(batch[i]) = <<>> THEN "fetch" ELSE "unmarshal"]
    /\ dp' = [dp EXCEPT ![i] = NoDP]
    /\ breachCount' = [breachCount EXCEPT ![i] = 0]
    /\ attempted' = [attempted EXCEPT ![i] = {}]

Cur(i) == Head(batch[i])

\* What a remote call adds to the record of the current delivery.
Failed(ok) == IF ok THEN {} ELSE {"failed"}
Published(ok) == IF ok THEN {"published"} ELSE {}

-----------------------------------------------------------------------------
(* Publishing into the data streams *)

\* js.Publish(subject, payload): stored by the one stream capturing the subject.
BrokerStore(subj, data) ==
    LET hit == StreamsFor(subj) IN
    IF hit = {} THEN UNCHANGED <<stored, status>>
    ELSE LET n == CHOOSE x \in hit : TRUE IN
         /\ stored' = [stored EXCEPT ![n] = Append(@, [subject |-> subj, data |-> data])]
         /\ status' = IF n = streamName THEN Append(status, "new") ELSE status

Stored == LET S == {Len(stored[n]) : n \in DOMAIN stored}
          IN  IF S = {} THEN 0 ELSE CHOOSE x \in S : \A y \in S : y <= x

\* ingestHandler: POST /ingest
Ingest(p) ==
    /\ Stored < MaxMsgs
    /\ BrokerStore(IngestSubject(p), Marshal(p))
    /\ resp' = [op |-> "ingest", arg |-> p.organization_id,
                code |-> IF StreamsFor(IngestSubject(p)) = {} THEN 500 ELSE 200]
    /\ UNCHANGED <<streams, consumers, replicaVars, redisVars, alerts, events, crashes, issuerVars, notifyVars, sinkVars>>

\* The end-to-end scenario: readings 85, 90, 75, 95, 95, 95 of machine-123/temp1.
Scenario == <<85, 90, 75, 95, 95, 95>>

ScenarioMsg(n) ==
    LET p == DataPoint("orgA", "machine-123", "temp1", Scenario[n])
    IN  [subject |-> IngestSubject(p), data |-> Marshal(p)]

OnScenario ==
    /\ Len(Log) <= Len(Scenario)
    /\ \A n \in 1..Len(Log) : Log[n] = ScenarioMsg(n)

\* ingestHandler, called with the next reading of the scenario.
IngestScenario ==
    /\ OnScenario
    /\ Len(Log) < Len(Scenario)
    /\ LET p == DataPoint("orgA", "machine-123", "temp1", Scenario[Len(Log) + 1]) IN
       /\ BrokerStore(IngestSubject(p), Marshal(p))
       /\ resp' = [op |-> "ingest", arg |-> p.organization_id,
                   code |-> IF StreamsFor(IngestSubject(p)) = {} THEN 500 ELSE 200]
    /\ UNCHANGED <<streams, consumers, replicaVars, redisVars, alerts, events, crashes, issuerVars, notifyVars, sinkVars>>

\* A producer publishing bytes that are not a DataPoint on its own subject.
PublishRaw(o, d, s) ==
    /\ Stored < MaxMsgs
    /\ StreamsFor(<<"data", o, d, s>>) # {}
    /\ BrokerStore(<<"data", o, d, s>>, Garbage)
    /\ UNCHANGED <<streams, consumers, replicaVars, redisVars, alerts, events, crashes, resp, issuerVars, notifyVars, sinkVars>>

-----------------------------------------------------------------------------
(* The queue group of the notification service on notifications.> *)

\* The broker hands a message of a queue group to one member, whichever it likes;
\* 0 stands for nobody, when the group has no member.
QueuePick(group) == IF group = {} THEN {0} ELSE group

\* A plain subscription instead of a queue subscription: every subscriber gets it.
Deliver_ToAll(to, a) ==
    [n \in NotifyInstances |-> IF n \in members THEN Append(inbox[n], a) ELSE inbox[n]]

\* The message enters the subscription of the member picked.
Deliver(to, a) ==
    [n \in NotifyInstances |-> IF n = to THEN Append(inbox[n], a) ELSE inbox[n]]

-----------------------------------------------------------------------------
(* Analysis engine: main's loop and processMessage.  A step is one remote call  *)
(* (broker or counter store) together with the local code that follows it up   *)
(* to the next remote call: a crash or another process can come between two    *)
(* remote calls, not inside one.  A failed call leaves the remote state as it  *)
(* was.                                                                        *)

\* sub.Fetch returned messages.
Fetch(i) ==
    /\ pc[i] = "fetch"
    /\ FetchResult # <<>>
    /\ batch' = [batch EXCEPT ![i] = FetchResult]
    /\ status' = [m \in 1..Len(status) |->
                     IF \E j \in 1..Len(FetchResult) : FetchResult[j] = m
                     THEN "inflight" ELSE status[m]]
    /\ pc' = [pc EXCEPT ![i] = "unmarshal"]
    /\ UNCHANGED <<streams, stored, consumers, dp, breachCount, attempted, redisVars, alerts,
                   events, crashes, resp, issuerVars, notifyVars, sinkVars>>

\* sub.Fetch timed out (nats.ErrTimeout) or failed: continue.
FetchNothing(i) ==
    /\ pc[i] = "fetch"
    /\ UNCHANGED vars

\* json.Unmarshal; on error msg.Nak() and return.
UnmarshalStep(i) ==
    /\ pc[i] = "unmarshal"
    /\ LET u == Unmarshal(Log[Cur(i)].data) IN
       IF ~u.ok
       THEN /\ status' = [status EXCEPT ![Cur(i)] = "redeliver"]
            /\ events' = events \cup {"redelivery"}
            /\ Advance(i)
       ELSE /\ dp' = [dp EXCEPT ![i] = u.dp]
            /\ pc' = [pc EXCEPT ![i] = AfterUnmarshal(u.dp)]
            /\ UNCHANGED <<status, events, batch, breachCount, attempted>>
    /\ UNCHANGED <<streams, stored, consumers, redisVars, alerts, crashes, resp, issuerVars, notifyVars, sinkVars>>

\* rdb.Incr(ctx, redisKey).Result(); an error is logged and the count is 0.
IncrStep(i, ok) ==
    /\ pc[i] = "incr"
    /\ attempted' = [attempted EXCEPT ![i] = @ \cup {"incr"} \cup Failed(ok)]
    /\ IF ok
       THEN /\ counters' = RedisIncr(counters, RedisKey(dp[i]))
            /\ breachCount' = [breachCount EXCEPT ![i] = counters'[RedisKey(dp[i])]]
            /\ applied' = Returned(applied, RedisKey(dp[i]), counters'[RedisKey(dp[i])])
            /\ UNCHANGED events
       ELSE /\ breachCount' = [breachCount EXCEPT ![i] = 0]
            /\ events' = events \cup {"fault"}
            /\ UNCHANGED <<counters, applied>>
    /\ pc' = [pc EXCEPT ![i] = "expire"]
    /\ UNCHANGED <<brokerVars, batch, dp, ttl, expiresIn, alerts, crashes, resp, issuerVars,
                   notifyVars, sinkVars>>

\* rdb.Expire(ctx, redisKey, 5*time.Minute); its result is not looked at.
ExpireStep(i, ok) ==
    /\ pc[i] = "expire"
    /\ attempted' = [attempted EXCEPT ![i] = @ \cup {"expire"} \cup Failed(ok)]
    /\ IF ok
       THEN /\ ttl' = IF RedisKey(dp[i]) \in DOMAIN counters
                      THEN ttl \cup {RedisKey(dp[i])} ELSE ttl
            /\ expiresIn' = IF RedisKey(dp[i]) \in DOMAIN counters
                            THEN RedisExpire(expiresIn, RedisKey(dp[i]), IdleWindow)
                            ELSE expiresIn
            /\ UNCHANGED events
       ELSE /\ events' = events \cup {"fault"}
            /\ UNCHANGED <<ttl, expiresIn>>
    /\ pc' = [pc EXCEPT ![i] = AfterExpire(breachCount[i])]
    /\ UNCHANGED <<brokerVars, batch, dp, breachCount, counters, applied, alerts, crashes,
                   resp, issuerVars, notifyVars, sinkVars>>

\* js.Publish(notificationSubject, payload)
PublishStep(i, ok) ==
    /\ pc[i] = "publish"
    /\ attempted' = [attempted EXCEPT ![i] =
                         @ \cup {"publish"} \cup Failed(ok) \cup Published(ok)]
    /\ IF ok
       THEN /\ alerts' = Append(alerts,
                   [subject |-> NotificationSubject(dp[i]),
                    organization_id |-> dp[i].organization_id,
                    device_id |-> dp[i].device_id,
                    sensor_name |-> dp[i].sensor_name,
                    condition |-> "Consecutive Temp Threshold Breach"])
            /\ audience' = Append(audience, members)
            /\ \E to \in QueuePick(members) : inbox' = Deliver(to, Len(alerts) + 1)
            /\ UNCHANGED events
       ELSE /\ events' = events \cup {"fault"}
            /\ UNCHANGED <<alerts, audience, inbox>>
    /\ pc' = [pc EXCEPT ![i] = AfterPublish(ok)]
    /\ UNCHANGED <<brokerVars, batch, dp, breachCount, redisVars, crashes, resp,
                   issuerVars, members, handled, sinkVars>>

\* rdb.Del(ctx, redisKey) of either branch; its result is not looked at.
DelStep(i, ok) ==
    /\ pc[i] = "del"
    /\ attempted' = [attempted EXCEPT ![i] = @ \cup {"del"} \cup Failed(ok)]
    /\ IF ok
       THEN /\ counters' = RedisDel(counters, RedisKey(dp[i]))
            /\ ttl' = ttl \ {RedisKey(dp[i])}
            /\ expiresIn' = RedisDel(expiresIn, RedisKey(dp[i]))
            /\ applied' = RedisDel(applied, RedisKey(dp[i]))
            /\ UNCHANGED events
       ELSE /\ events' = events \cup {"fault"}
            /\ UNCHANGED <<counters, ttl, expiresIn, applied>>
    /\ pc' = [pc EXCEPT ![i] = "ack"]
    /\ UNCHANGED <<brokerVars, batch, dp, breachCount, alerts, crashes, resp,
                   issuerVars, notifyVars, sinkVars>>

\* msg.Ack()
AckStep(i) ==
    /\ pc[i] = "ack"
    /\ status' = [status EXCEPT ![Cur(i)] = "acked"]
    /\ Advance(i)
    /\ UNCHANGED <<streams, stored, consumers, redisVars, alerts, events, crashes, resp, issuerVars, notifyVars, sinkVars>>

\* The process dies; the broker redelivers what it had not acknowledged.
Crash(i) ==
    /\ crashes < MaxCrashes
    /\ batch[i] # <<>>
    /\ status' = [m \in 1..Len(status) |->
                     IF \E j \in 1..Len(batch[i]) : batch[i][j] = m
                     THEN "redeliver" ELSE status[m]]
    /\ events' = events \cup {"redelivery"}
    /\ crashes' = crashes + 1
    /\ batch' = [batch EXCEPT ![i] = <<>>]
    /\ pc' = [pc EXCEPT ![i] = "fetch"]
    /\ dp' = [dp EXCEPT ![i] = NoDP]
    /\ breachCount' = [breachCount EXCEPT ![i] = 0]
    /\ attempted' = [attempted EXCEPT ![i] = {}]
    /\ UNCHANGED <<streams, stored, consumers, redisVars, alerts, resp, issuerVars, notifyVars, sinkVars>>

\* The idle window of a counter elapses: the store drops the key.
KeyExpires(k) ==
    /\ k \in DOMAIN counters
    /\ k \in ttl
    /\ counters' = RedisDel(counters, k)
    /\ ttl' = ttl \ {k}
    /\ expiresIn' = RedisDel(expiresIn, k)
    /\ applied' = RedisDel(applied, k)
    /\ events' = events \cup {"expiry"}
    /\ UNCHANGED <<brokerVars, replicaVars, alerts, crashes, resp, issuerVars, notifyVars, sinkVars>>

-----------------------------------------------------------------------------
(* Specification of the detector pipeline: one replica *)

Inputs ==
    { DataPoint("orgA", "machine-123", "temp1", 80),
      DataPoint("orgA", "machine-123", "temp1", 85),
      DataPoint("orgA", "machine-456", "temp1", 85),
      DataPoint("orgA", "machine-123", "hum1", 85) }

InitIdle ==
    /\ pc = [i \in Replicas |-> "fetch"]
    /\ batch = [i \in Replicas |-> <<>>]
    /\ dp = [i \in Replicas |-> NoDP]
    /\ breachCount = [i \in Replicas |-> 0]
    /\ attempted = [i \in Replicas |-> {}]
    /\ counters = <<>>
    /\ ttl = {}
    /\ expiresIn = <<>>
    /\ applied = <<>>
    /\ alerts = <<>>
    /\ events = {}
    /\ crashes = 0
    /\ resp = [op |-> "none", arg |-> "", code |-> 0]
    /\ tokens = {}
    /\ submitted = {}
    /\ signingKey = FALSE
    /\ now = 0
    /\ members = {}
    /\ inbox = [n \in NotifyInstances |-> <<>>]
    /\ handled = [n \in NotifyInstances |-> <<>>]
    /\ audience = <<>>
    /\ sinkStatus = <<>>
    /\ sinkCalls = <<>>

\* The organization orgA has been provisioned and the engine has bound its consumer.
Init ==
    /\ streams = (streamName :> StreamSubjectsOf("orgA"))
    /\ stored = (streamName :> <<>>)
    /\ consumers = {[durable |-> analysisConsumer, stream |-> streamName]}
    /\ status = <<>>
    /\ InitIdle

Engine(i) ==
    \/ Fetch(i)
    \/ FetchNothing(i)
    \/ UnmarshalStep(i)
    \/ \E ok \in BOOLEAN : IncrStep(i, ok)
    \/ \E ok \in BOOLEAN : ExpireStep(i, ok)
    \/ \E ok \in BOOLEAN : PublishStep(i, ok)
    \/ \E ok \in BOOLEAN : DelStep(i, ok)
    \/ AckStep(i)
    \/ Crash(i)

Next ==
    \/ \E p \in Inputs : Ingest(p)
    \/ IngestScenario
    \/ PublishRaw("orgA", "machine-123", "temp1")
    \/ Engine(1)
    \/ \E k \in DOMAIN counters : KeyExpires(k)

Spec == Init /\ [][Next]_vars

-----------------------------------------------------------------------------
(* Provisioning of streams and consumers *)

\* Two subject patterns overlap when some subject matches both.
RECURSIVE Collide(_, _)
Collide(a, b) ==
    IF a = <<>> \/ b = <<>> THEN a = b
    ELSE IF Head(a) = ">" \/ Head(b) = ">" THEN TRUE
    ELSE /\ (Head(a) = "*" \/ Head(b) = "*" \/ Head(a) = Head(b))
         /\ Collide(Tail(a), Tail(b))

\* js.AddStream as the broker answers it: an identical stream is returned as it is,
\* a name in use with another configuration and subjects that overlap another
\* stream are errors.
AddStreamResult(name, subjects) ==
    IF name \in DOMAIN streams
    THEN IF streams[name] = subjects THEN "exists" ELSE "name-in-use"
    ELSE IF \E n \in DOMAIN streams : \E a \in streams[n], b \in subjects : Collide(a, b)
         THEN "overlap"
         ELSE "created"

AddStream(name, subjects) ==
    IF AddStreamResult(name, subjects) = "created"
    THEN /\ streams' = streams @@ (name :> subjects)
         /\ stored' = stored @@ (name :> <<>>)
    ELSE UNCHANGED <<streams, stored>>

AddStreamOk(name, subjects) == AddStreamResult(name, subjects) \in {"created", "exists"}

\* createOrganizationHandler: POST /organizations
CreateOrganization(org) ==
    /\ AddStream(StreamNameOf(org), StreamSubjectsOf(org))
    /\ resp' = [op |-> "createOrganization", arg |-> org,
                code |-> IF AddStreamOk(StreamNameOf(org), StreamSubjectsOf(org))
                         THEN 201 ELSE 500]
    /\ UNCHANGED <<consumers, status, replicaVars, redisVars, alerts, events, crashes,
                   issuerVars, notifyVars, sinkVars>>

\* js.PullSubscribe("", durable, nats.BindStream(stream)): fatal without the stream.
PullSubscribe(durable, stream, have) ==
    IF stream \in have
    THEN consumers' = consumers \cup {[durable |-> durable, stream |-> stream]}
    ELSE UNCHANGED consumers

\* The subjects the persistence service asks its stream to capture.
PersistenceSubjects == {<<"data", ">">>}

\* main of the data persistence service: AddStream (result ignored), then bind.
PersistenceStart ==
    /\ AddStream(streamName, PersistenceSubjects)
    /\ PullSubscribe(persistenceConsumer, streamName, DOMAIN streams')
    /\ resp' = [op |-> "persistenceStart", arg |-> streamName,
                code |-> IF streamName \in DOMAIN streams' THEN 0 ELSE 1]
    /\ UNCHANGED <<status, replicaVars, redisVars, alerts, events, crashes, issuerVars, notifyVars, sinkVars>>

\* main of the analysis engine: bind the durable consumer to the stream.
AnalysisStart ==
    /\ PullSubscribe(analysisConsumer, streamName, DOMAIN streams)
    /\ resp' = [op |-> "analysisStart", arg |-> streamName,
                code |-> IF streamName \in DOMAIN streams THEN 0 ELSE 1]
    /\ UNCHANGED <<streams, stored, status, replicaVars, redisVars, alerts, events,
                   crashes, issuerVars, notifyVars, sinkVars>>

TenantInputs ==
    { DataPoint(o, "d1", "temp1", 85) : o \in Orgs }

InitBroker ==
    /\ streams = <<>>
    /\ stored = <<>>
    /\ consumers = {}
    /\ status = <<>>
    /\ InitIdle

NextStreams ==
    \/ \E org \in Orgs : CreateOrganization(org)
    \/ PersistenceStart
    \/ AnalysisStart
    \/ \E p \in TenantInputs : Ingest(p)

SpecStreams == InitBroker /\ [][NextStreams]_vars

-----------------------------------------------------------------------------
(* Credentials *)

\* An org-wide grant instead of the device's own subtree.
DeviceClaims_OrgWide(org, dev) ==
    [sub |-> dev, org |-> org, pubAllow |-> {<<"data", org, ">">>}, subAllow |-> {},
     expires |-> 0, notBefore |-> 0]

\* jwt.NewUserClaims(deviceID); claims.Permissions.Pub.Allow.Add("data.<org>.<dev>.>")
\* org notes the organization the claims were built for; expires 0: no expiry set.
DeviceClaims(org, dev) ==
    [sub |-> dev, org |-> org, pubAllow |-> {<<"data", org, dev, ">">>}, subAllow |-> {},
     expires |-> 0, notBefore |-> 0]

\* claims.Encode(signingKey) needs the key pair.
Encode(key) == key

\* GenerateSASToken(orgID, deviceID); key: whether the package's signingKey is set
\* where the function runs.
GenerateSASToken(org, dev, key) ==
    /\ Cardinality(tokens) < MaxTokens
    /\ LET claims == [DeviceClaims(org, dev) EXCEPT !.expires = now + TokenValidity,
                                                    !.notBefore = now]
       IN  /\ submitted' = {[claims |-> claims, at |-> now]}
           /\ IF Encode(key)
              THEN tokens' = tokens \cup {claims}
              ELSE UNCHANGED tokens
    /\ resp' = [op |-> "GenerateSASToken", arg |-> org,
                code |-> IF Encode(key) THEN 0 ELSE 1]
    /\ UNCHANGED <<brokerVars, replicaVars, redisVars, alerts, events, crashes,
                   signingKey, now, notifyVars, sinkVars>>

\* registerDeviceHandler: POST /devices with a payload that passes validation;
\* deviceID := uuid.New().String()
RegisterDevice(org) ==
    /\ Cardinality(tokens) < MaxTokens
    /\ \E dev \in DeviceIds \ {t.sub : t \in tokens} :
          /\ submitted' = {[claims |-> DeviceClaims(org, dev), at |-> now]}
          /\ IF Encode(signingKey)
             THEN tokens' = tokens \cup {DeviceClaims(org, dev)}
             ELSE UNCHANGED tokens
          /\ resp' = [op |-> "registerDevice", arg |-> org,
                      code |-> IF Encode(signingKey) THEN 201 ELSE 500]
    /\ UNCHANGED <<brokerVars, replicaVars, redisVars, alerts, events, crashes,
                   signingKey, now, notifyVars, sinkVars>>

\* An hour passes.
Tick ==
    /\ now < MaxTime
    /\ now' = now + 1
    /\ UNCHANGED <<brokerVars, replicaVars, redisVars, alerts, events, crashes, resp,
                   tokens, submitted, signingKey, notifyVars, sinkVars>>

\* The broker's check of a publish against the token's permissions.
MayPublish(t, subj) ==
    t.pubAllow = {} \/ \E pat \in t.pubAllow : SubjectMatches(pat, subj)

\* The broker's check of the token's validity at a time: expires 0 is no expiry.
NotExpired(t, time) == t.expires = 0 \/ time < t.expires

NextToken ==
    \/ \E org \in Orgs, dev \in DeviceIds, key \in BOOLEAN : GenerateSASToken(org, dev, key)
    \/ \E org \in Orgs : RegisterDevice(org)
    \/ Tick

SpecToken == InitBroker /\ [][NextToken]_vars

\* The readings that drive the detector to an alert.
AlertInputs == { DataPoint("orgA", "machine-123", "temp1", 85) }

-----------------------------------------------------------------------------
(* The detector under a clock: the idle window of the counters *)

\* A minute passes: every expiry comes a minute closer, and the store drops the
\* keys whose expiry is reached.
IdleTick ==
    LET gone == {k \in DOMAIN expiresIn : expiresIn[k] = 1} IN
    /\ counters' = [k \in DOMAIN counters \ gone |-> counters[k]]
    /\ ttl' = ttl \ gone
    /\ expiresIn' = [k \in DOMAIN expiresIn \ gone |-> expiresIn[k] - 1]
    /\ applied' = [k \in DOMAIN applied \ gone |-> applied[k]]
    /\ events' = IF gone = {} THEN events ELSE events \cup {"expiry"}
    /\ UNCHANGED <<brokerVars, replicaVars, alerts, crashes, resp, issuerVars, notifyVars, sinkVars>>

NextIdle ==
    \/ \E p \in AlertInputs : Ingest(p)
    \/ Engine(1)
    \/ IdleTick

\* Time passes, and the replica's loop goes on.
SpecIdle ==
    /\ Init /\ [][NextIdle]_vars
    /\ WF_vars(IdleTick)
    /\ WF_vars(Engine(1))

-----------------------------------------------------------------------------
(* Two replicas of the detector on the one durable consumer and the one store *)

\* Readings of machine-123/temp1: a non-breaching one, then three breaching ones.
RunReadings == <<80, 85, 85, 85>>

RunMsg(n) ==
    LET p == DataPoint("orgA", "machine-123", "temp1", RunReadings[n])
    IN  [subject |-> IngestSubject(p), data |-> Marshal(p)]

OnRun ==
    /\ Len(Log) <= Len(RunReadings)
    /\ \A n \in 1..Len(Log) : Log[n] = RunMsg(n)

\* ingestHandler, called with the next reading of the run.
IngestRun ==
    /\ Len(Log) < Len(RunReadings)
    /\ LET p == DataPoint("orgA", "machine-123", "temp1", RunReadings[Len(Log) + 1]) IN
       /\ BrokerStore(IngestSubject(p), Marshal(p))
       /\ resp' = [op |-> "ingest", arg |-> p.organization_id,
                   code |-> IF StreamsFor(IngestSubject(p)) = {} THEN 500 ELSE 200]
    /\ UNCHANGED <<streams, consumers, replicaVars, redisVars, alerts, events, crashes,
                   issuerVars, notifyVars, sinkVars>>

NextReplicas ==
    \/ IngestRun
    \/ \E i \in Replicas : Engine(i)
    \/ \E k \in DOMAIN counters : KeyExpires(k)

SpecReplicas == Init /\ [][NextReplicas]_vars

-----------------------------------------------------------------------------
(* The detector on a broker provisioned by the services themselves *)

\* The analysis engine has bound its durable consumer.
EngineBound == [durable |-> analysisConsumer, stream |-> streamName] \in consumers

\* The loop of the engine runs once main has bound the consumer.
BoundEngine(i) == EngineBound /\ Engine(i)

NextTenants ==
    \/ \E org \in Orgs : CreateOrganization(org)
    \/ PersistenceStart
    \/ AnalysisStart
    \/ \E p \in TenantInputs : Ingest(p)
    \/ BoundEngine(1)

SpecTenants == InitBroker /\ [][NextTenants]_vars

-----------------------------------------------------------------------------
(* The detector when only the alert publish fails *)

\* Readings of machine-123/temp1: four breaching ones, then a non-breaching one.
RetryReadings == <<85, 85, 85, 85, 80>>

RetryMsg(n) ==
    LET p == DataPoint("orgA", "machine-123", "temp1", RetryReadings[n])
    IN  [subject |-> IngestSubject(p), data |-> Marshal(p)]

OnRetry ==
    /\ Len(Log) <= Len(RetryReadings)
    /\ \A n \in 1..Len(Log) : Log[n] = RetryMsg(n)

\* ingestHandler, called with the next of these readings.
IngestRetry ==
    /\ Len(Log) < Len(RetryReadings)
    /\ LET p == DataPoint("orgA", "machine-123", "temp1", RetryReadings[Len(Log) + 1]) IN
       /\ BrokerStore(IngestSubject(p), Marshal(p))
       /\ resp' = [op |-> "ingest", arg |-> p.organization_id,
                   code |-> IF StreamsFor(IngestSubject(p)) = {} THEN 500 ELSE 200]
    /\ UNCHANGED <<streams, consumers, replicaVars, redisVars, alerts, events, crashes,
                   issuerVars, notifyVars, sinkVars>>

\* The loop of a replica whose store calls succeed and whose process stays up.
EnginePublishFaults(i) ==
    \/ Fetch(i)
    \/ FetchNothing(i)
    \/ UnmarshalStep(i)
    \/ IncrStep(i, TRUE)
    \/ ExpireStep(i, TRUE)
    \/ \E ok \in BOOLEAN : PublishStep(i, ok)
    \/ DelStep(i, TRUE)
    \/ AckStep(i)

NextRetry ==
    \/ IngestRetry
    \/ EnginePublishFaults(1)
    \/ \E k \in DOMAIN counters : KeyExpires(k)

SpecRetry == Init /\ [][NextRetry]_vars

-----------------------------------------------------------------------------
(* Data persistence service: processMessage *)

\* The return after the Nak is missing: a message that does not parse is written
\* and acknowledged as well.
SinkProcessMessage_NoReturn(data) ==
    IF Unmarshal(data).ok THEN <<"WritePoint", "Ack">> ELSE <<"Nak", "WritePoint", "Ack">>

\* processMessage of the persistence service, as the calls it makes in turn.
SinkProcessMessage(data) ==
    IF Unmarshal(data).ok THEN <<"WritePoint", "Ack">> ELSE <<"Nak">>

\* The consumer's state of a message after a delivery with these calls: the first
\* of Ack and Nak decides, and without either the message stays in flight.
RECURSIVE Decision(_)
Decision(calls) ==
    IF calls = <<>> THEN "inflight"
    ELSE IF Head(calls) = "Ack" THEN "acked"
    ELSE IF Head(calls) = "Nak" THEN "redeliver"
    ELSE Decision(Tail(calls))

SinkBound == [durable |-> persistenceConsumer, stream |-> streamName] \in consumers

\* The messages the broker has for the persistence service.
SinkPending ==
    {m \in 1..Len(Log) : m \notin DOMAIN sinkStatus \/ sinkStatus[m] = "redeliver"}

\* The persistence service's loop hands a delivered message to processMessage.
PersistenceProcess(m) ==
    /\ SinkBound
    /\ m \in SinkPending
    /\ sinkCalls' = SinkProcessMessage(Log[m].data)
    /\ sinkStatus' = [x \in DOMAIN sinkStatus \cup {m} |->
                          IF x = m THEN Decision(sinkCalls') ELSE sinkStatus[x]]
    /\ UNCHANGED <<brokerVars, replicaVars, redisVars, alerts, events, crashes, resp,
                   issuerVars, notifyVars>>

NextAck ==
    \/ \E p \in AlertInputs : Ingest(p)
    \/ PublishRaw("orgA", "machine-123", "temp1")
    \/ Engine(1)
    \/ PersistenceStart
    \/ \E m \in 1..Len(Log) : PersistenceProcess(m)

SpecAck == Init /\ [][NextAck]_vars

-----------------------------------------------------------------------------
(* The consumer loop, scheduled fairly *)

NextLoop ==
    \/ \E p \in AlertInputs : Ingest(p)
    \/ PublishRaw("orgA", "machine-123", "temp1")
    \/ Engine(1)

\* The replica's process keeps running.
SpecLoop ==
    /\ Init /\ [][NextLoop]_vars
    /\ WF_vars(Engine(1))

-----------------------------------------------------------------------------
(* Notification service *)

\* main: nc.QueueSubscribe("notifications.>", "notification-group", handler)
NotifyStart(n) ==
    /\ n \notin members
    /\ members' = members \cup {n}
    /\ UNCHANGED <<brokerVars, replicaVars, redisVars, alerts, events, crashes, resp,
                   issuerVars, inbox, handled, audience, sinkVars>>

\* The subscription's callback: processNotification(msg) for the oldest message
\* waiting in the subscription.
ProcessNotification(n) ==
    /\ inbox[n] # <<>>
    /\ handled' = [handled EXCEPT ![n] = Append(@, Head(inbox[n]))]
    /\ inbox' = [inbox EXCEPT ![n] = Tail(@)]
    /\ UNCHANGED <<brokerVars, replicaVars, redisVars, alerts, events, crashes, resp,
                   issuerVars, members, audience, sinkVars>>

NextFanout ==
    \/ \E p \in AlertInputs : Ingest(p)
    \/ Engine(1)
    \/ \E n \in NotifyInstances : NotifyStart(n)
    \/ \E n \in NotifyInstances : ProcessNotification(n)

\* The client library runs the callback for every message of the subscription.
SpecFanout ==
    /\ Init /\ [][NextFanout]_vars
    /\ \A n \in NotifyInstances : WF_vars(ProcessNotification(n))

-----------------------------------------------------------------------------
(* Vocabulary of the properties *)

\* A breaching reading, as the specification words it: temp1 with a value above 80.
BreachReading(p) == p.sensor_name = "temp1" /\ p.value > 80

\* A non-breaching reading of the monitored sensor.
ClearReading(p) == p.sensor_name = "temp1" /\ p.value <= 80

WellFormed(m) == Log[m].data[1] = "json"
Reading(m) == Log[m].data[2]

\* The temp1 values of device d among the first n messages of the stream; with
\* ackedOnly, among those already acknowledged.
RECURSIVE Temp1Values(_, _, _)
Temp1Values(d, n, ackedOnly) ==
    IF n = 0 THEN <<>>
    ELSE Temp1Values(d, n - 1, ackedOnly) \o
         (IF /\ ackedOnly => status[n] = "acked"
             /\ WellFormed(n)
             /\ Reading(n).device_id = d
             /\ Reading(n).sensor_name = "temp1"
          THEN <<Reading(n).value>> ELSE <<>>)

AckedValues(d) == Temp1Values(d, Len(Log), TRUE)
PublishedValues(d) == Temp1Values(d, Len(Log), FALSE)

HasRun3(vs) ==
    \E j \in 1..(Len(vs) - 2) : vs[j] > 80 /\ vs[j + 1] > 80 /\ vs[j + 2] > 80

\* Number of disjoint groups of 3 consecutive breaching values.
RECURSIVE Groups3(_, _)
Groups3(vs, run) ==
    IF vs = <<>> THEN 0
    ELSE IF Head(vs) > 80
         THEN IF run = 2 THEN 1 + Groups3(Tail(vs), 0) ELSE Groups3(Tail(vs), run + 1)
         ELSE Groups3(Tail(vs), 0)

LogDevices == {Reading(m).device_id : m \in {x \in 1..Len(Log) : WellFormed(x)}}

AlertsFor(d) ==
    {a \in 1..Len(alerts) : alerts[a].device_id = d /\ alerts[a].sensor_name = "temp1"}

NumAcked == Cardinality({m \in 1..Len(status) : status[m] = "acked"})

\* Every delivery so far was the first of its message and no remote call failed.
ExactlyOnceNoFailure ==
    crashes = 0 /\ "redelivery" \notin events /\ "fault" \notin events

\* The replica is between two calls of processMessage.
AtRest(i) == pc[i] \in {"fetch", "unmarshal"}

\* Replica i makes message m acknowledged in this step.
Acks(i, m) ==
    /\ batch[i] # <<>> /\ Cur(i) = m
    /\ status[m] # "acked" /\ status'[m] = "acked"

-----------------------------------------------------------------------------
(* C1 *)

\* C1, as stated: readings delivered exactly once, in order, to one replica, every
\* remote call succeeding: an alert exists for a device iff its processed temp1
\* readings hold 3 consecutive values above 80; on the scenario 85, 90, 75, 95, 95,
\* 95 there is no alert before the 6th reading and exactly one after it.
C1_AlertIffThreeConsecutive ==
    (ExactlyOnceNoFailure /\ AtRest(1)) =>
        /\ \A d \in LogDevices : (AlertsFor(d) # {}) <=> HasRun3(AckedValues(d))
        /\ OnScenario => Len(alerts) = (IF NumAcked = 6 THEN 1 ELSE 0)

\* C1, amended: an alert only if 3 consecutive breaching readings; and, as long as
\* no counter has idle-expired, an alert whenever there are 3 consecutive breaching
\* readings; on the scenario no alert before the 6th reading, and exactly one after
\* it when no counter has idle-expired.
C1_AlertIffThreeConsecutiveNoExpiry ==
    (ExactlyOnceNoFailure /\ AtRest(1)) =>
        /\ \A d \in LogDevices : (AlertsFor(d) # {}) => HasRun3(AckedValues(d))
        /\ OnScenario /\ NumAcked < 6 => Len(alerts) = 0
        /\ "expiry" \notin events =>
              /\ \A d \in LogDevices : HasRun3(AckedValues(d)) => (AlertsFor(d) # {})
              /\ OnScenario /\ NumAcked = 6 => Len(alerts) = 1

\* The scenario has been processed to its end without disturbance: one alert.
C1_Witness ==
    /\ ExactlyOnceNoFailure /\ "expiry" \notin events /\ AtRest(1)
    /\ OnScenario /\ NumAcked = 6
    /\ Len(alerts) = 1

-----------------------------------------------------------------------------
(* C2 *)

\* C2: when processMessage has published an alert for a key, that key's counter is
\* absent at the time processMessage returns (it is about to acknowledge), so no
\* reading ever sees a post-increment count of 4 or more.  Stated for the runs in
\* which no replica crashed.
C2_CounterAbsentAfterAlert ==
    crashes = 0 =>
        /\ \A i \in Replicas :
              (pc[i] = "ack" /\ "published" \in attempted[i])
                  => RedisKey(dp[i]) \notin DOMAIN counters
        /\ \A i \in Replicas : breachCount[i] < 4

-----------------------------------------------------------------------------
(* C3 *)

\* C3: when processMessage returns from a non-breaching temp1 reading, the counter
\* of the reading's key is absent and no alert was published for it.
C3_ClearReadingResets ==
    \A i \in Replicas :
        (pc[i] = "ack" /\ ClearReading(dp[i]))
            => /\ RedisKey(dp[i]) \notin DOMAIN counters
               /\ "published" \notin attempted[i]

-----------------------------------------------------------------------------
(* C4 *)

\* C4: for every device, the number of alerts published never exceeds the number
\* of disjoint groups of 3 consecutive breaching readings published for it.
C4_AtMostOneAlertPerEpisode ==
    \A d \in LogDevices :
        Cardinality(AlertsFor(d)) <= Groups3(PublishedValues(d), 0)

-----------------------------------------------------------------------------
(* C5 *)

\* The remote calls the processing of a well-formed reading entails, given what
\* the delivery has seen so far.
Entailed(i, p) ==
    IF BreachReading(p)
    THEN {"incr", "expire"}
            \cup (IF breachCount[i] >= 3 THEN {"publish"} ELSE {})
            \cup (IF "published" \in attempted[i] THEN {"del"} ELSE {})
    ELSE IF ClearReading(p) THEN {"del"}
    ELSE {}

\* C5: a message becomes acknowledged only in a step of the replica processing it,
\* after every counter-store call and the publish its reading entails have been
\* attempted; and the processing of a well-formed reading ends in no other way
\* than its acknowledgment (or the crash of the replica).
C5_AckAfterSideEffects ==
    [][ \A m \in 1..Len(status) :
          /\ (status[m] # "acked" /\ status'[m] = "acked") =>
                \E i \in Replicas :
                    /\ Acks(i, m)
                    /\ WellFormed(m)
                    /\ Entailed(i, Reading(m)) \subseteq attempted[i]
          /\ (WellFormed(m) /\ status[m] = "inflight" /\ status'[m] # "inflight") =>
                (status'[m] = "acked" \/ crashes' = crashes + 1)
      ]_vars

\* A breaching reading that raised the count to 3, published and reset the counter
\* is about to be acknowledged.
C5_Witness ==
    /\ pc[1] = "ack"
    /\ attempted[1] = {"incr", "expire", "publish", "published", "del"}

-----------------------------------------------------------------------------
(* C6 *)

\* C6: a message during whose processing a counter-store call or the alert publish
\* failed is not acknowledged.
C6_FailureIsNotAcked ==
    [][ \A m \in 1..Len(status), i \in Replicas :
          Acks(i, m) => "failed" \notin attempted[i]
      ]_vars

-----------------------------------------------------------------------------
(* C7 *)

Malformed(m) == Log[m].data[1] # "json"

\* C7: a message whose payload does not parse is never acknowledged; the step that
\* handles it leaves the counter store and the alerts as they are and puts the
\* message back for redelivery, on every delivery.
C7_MalformedIsNakedOnly ==
    [][ /\ \A m \in 1..Len(status) : Malformed(m) => status'[m] # "acked"
        /\ \A i \in Replicas :
              (batch[i] # <<>> /\ Malformed(Cur(i)) /\ batch'[i] # batch[i]) =>
                  /\ status'[Cur(i)] = "redeliver"
                  /\ UNCHANGED <<counters, ttl, alerts>>
        /\ \A i \in Replicas :
              (batch[i] # <<>> /\ Malformed(Cur(i))) => pc[i] = "unmarshal"
      ]_vars

\* A malformed message was delivered and negatively acknowledged (no crash put it
\* back), while a counter exists that its handling left alone.
C7_Witness ==
    \E m \in 1..Len(status) :
        /\ Malformed(m)
        /\ status[m] = "redeliver"
        /\ crashes = 0
        /\ counters # <<>>

-----------------------------------------------------------------------------
(* C8 *)

\* C8: for two distinct organizations, the stream names differ, the subject sets of
\* their streams do not overlap, and no message published on a subject of the one
\* is stored in the stream of the other, where the consumers bound to that stream
\* would read it.
C8_TenantIsolation ==
    \A a \in Orgs, b \in Orgs :
        a # b =>
            /\ StreamNameOf(a) # StreamNameOf(b)
            /\ (StreamNameOf(a) \in DOMAIN streams /\ StreamNameOf(b) \in DOMAIN streams) =>
                  \A x \in streams[StreamNameOf(a)], y \in streams[StreamNameOf(b)] :
                      ~Collide(x, y)
            /\ StreamNameOf(b) \in DOMAIN stored =>
                  \A n \in 1..Len(stored[StreamNameOf(b)]) :
                      ~SubjectMatches(<<"data", a, ">">>, stored[StreamNameOf(b)][n].subject)

-----------------------------------------------------------------------------
(* C9 *)

SubjectTokens == {"data"} \cup Orgs \cup DeviceIds

\* The subjects a publish is tried on: up to 4 segments, and 5 under data.
PublishSubjects ==
    UNION {[1..n -> SubjectTokens] : n \in 1..4}
        \cup {<<"data">> \o t : t \in [1..4 -> SubjectTokens]}

\* C9: every issued token grants exactly the publish pattern data.O.D.> of the
\* device D and organization O it was issued for and holds no subscribe entry; a
\* publish subject passes the token's check iff its first three segments are
\* data, O, D and at least one segment follows.
C9_DeviceScopedCapability ==
    \A t \in tokens :
        /\ t.pubAllow = {<<"data", t.org, t.sub, ">">>}
        /\ t.subAllow = {}
        /\ \A subj \in PublishSubjects :
              MayPublish(t, subj) <=>
                  /\ Len(subj) >= 4
                  /\ subj[1] = "data" /\ subj[2] = t.org /\ subj[3] = t.sub

\* A token of device d1 of orgA is out: it passes its own subject and is refused
\* on the subject of another device of orgA and on orgB's subject of device d1.
C9_Witness ==
    \E t \in tokens :
        /\ t.org = "orgA" /\ t.sub = "d1"
        /\ MayPublish(t, <<"data", "orgA", "d1", "temp1">>)
        /\ ~MayPublish(t, <<"data", "orgA", "d2", "temp1">>)
        /\ ~MayPublish(t, <<"data", "orgB", "d1", "temp1">>)

-----------------------------------------------------------------------------
(* C10 *)

\* C10: a create-organization call for an organization whose stream exists answers
\* success (201) and leaves the broker's streams as they are.
C10_ProvisioningIdempotent ==
    [][ \A org \in Orgs :
          (CreateOrganization(org) /\ StreamNameOf(org) \in DOMAIN streams) =>
              (resp'.code = 201 /\ streams' = streams)
      ]_vars

-----------------------------------------------------------------------------
(* C11 *)

\* How often alert a occurs in a sequence of alert numbers.
Occurrences(q, a) == Cardinality({j \in 1..Len(q) : q[j] = a})

Waiting(a) == {n \in NotifyInstances : Occurrences(inbox[n], a) > 0}
HandledBy(a) == {n \in NotifyInstances : Occurrences(handled[n], a) > 0}

\* C11: every alert published while the queue group had at least one member is
\* with exactly one instance, waiting in its subscription or handled by its
\* processNotification, and is neither waiting nor handled twice; and
\* every such alert is eventually handled.
OneHolder ==
    /\ \A a \in 1..Len(alerts) :
          audience[a] # {} =>
              /\ Cardinality(Waiting(a) \cup HandledBy(a)) = 1
              /\ \A n \in NotifyInstances :
                    Occurrences(inbox[n], a) + Occurrences(handled[n], a) <= 1
              /\ Waiting(a) \cup HandledBy(a) \subseteq audience[a]
    /\ \A n \in NotifyInstances : \A j \in 1..Len(handled[n]) :
          handled[n][j] \in 1..Len(alerts)

C11_ExactlyOneHandler ==
    /\ []OneHolder
    /\ \A a \in 1..(MaxMsgs + MaxCrashes) :
          (Len(alerts) >= a /\ audience[a] # {}) ~> (HandledBy(a) # {})

\* Two instances are in the group, an alert published to the two of them has been
\* handled by one, and the other has neither handled it nor has it waiting.
C11_Witness ==
    \E a \in 1..Len(alerts) : \E n \in NotifyInstances :
        /\ audience[a] = NotifyInstances
        /\ HandledBy(a) = {n}
        /\ Waiting(a) = {}

-----------------------------------------------------------------------------
(* C12 *)

CounterKeys == {RedisKey(p) : p \in Inputs}

\* C12: when the Incr and Expire calls of a breaching reading are done and its
\* counter is present, the counter has the full idle window ahead; every counter
\* is in the end absent for good, once the readings of its key have stopped, with
\* no non-breaching reading published; and an increment of an absent counter
\* returns 1.
C12_IdleExpiry ==
    /\ [][ \A i \in Replicas :
              (pc[i] = "expire" /\ pc'[i] \in {"publish", "ack"}
                   /\ RedisKey(dp[i]) \in DOMAIN counters') =>
                  /\ RedisKey(dp[i]) \in DOMAIN expiresIn'
                  /\ expiresIn'[RedisKey(dp[i])] = IdleWindow
          ]_vars
    /\ \A k \in CounterKeys : <>[](k \notin DOMAIN counters)
    /\ [][ \A i \in Replicas :
              (pc[i] = "incr" /\ pc'[i] = "expire" /\ "failed" \notin attempted'[i]
                   /\ RedisKey(dp[i]) \notin DOMAIN counters) =>
                  breachCount'[i] = 1
          ]_vars

-----------------------------------------------------------------------------
(* C16 *)

\* C16: in every reachable state, every counter present in the store carries an
\* expiry.
C16_CounterHasExpiry ==
    \A k \in DOMAIN counters : k \in ttl

-----------------------------------------------------------------------------
(* C13 *)

-----------------------------------------------------------------------------
(* C14 *)

\* C14: no device-registration request is served while the signing key is unset,
\* and none is answered with the error of a token that could not be signed.
C14_NoRegistrationWithoutKey ==
    resp.op = "registerDevice" => (signingKey /\ resp.code # 500)

-----------------------------------------------------------------------------
(* C15 *)

LoopPositions == {"fetch", "unmarshal", "incr", "expire", "publish", "del", "ack"}

\* C15: a replica is always at a position of its loop; a fetch that brings nothing
\* leaves it fetching; a remote call that fails leaves it with the same message;
\* whenever it is done with a message, however the processing went, it goes on
\* with the rest of the batch, and fetches again when the batch is empty; and it
\* comes back to the fetch again and again.
C15_LoopNeverAborts ==
    /\ [][ \A i \in Replicas :
              /\ pc'[i] \in LoopPositions
              /\ (pc[i] = "fetch" /\ batch'[i] = <<>>) => pc'[i] = "fetch"
              /\ (attempted'[i] # attempted[i] /\ "failed" \in attempted'[i]) =>
                    (batch'[i] = batch[i] /\ pc'[i] # "fetch")
              /\ (batch[i] # <<>> /\ batch'[i] # batch[i] /\ crashes' = crashes) =>
                    /\ batch'[i] = Tail(batch[i])
                    /\ pc'[i] = (IF Tail(batch[i]) = <<>> THEN "fetch" ELSE "unmarshal")
          ]_vars
    /\ []<>(pc[1] = "fetch")

\* A message was negatively acknowledged, the next was acknowledged after a remote
\* call had failed, and the replica goes on with a later message of its batch.
C15_Witness ==
    /\ crashes = 0
    /\ pc[1] = "unmarshal"
    /\ "fault" \in events
    /\ \E m \in 1..Len(status) :
          /\ Malformed(m) /\ status[m] = "redeliver"
          /\ m + 1 < Cur(1)
          /\ status[m + 1] = "acked"

-----------------------------------------------------------------------------
(* C17 *)

\* C17: with two replicas on one store, a counter is present exactly when Incr
\* calls have been applied to it since it was last deleted or expired; the values
\* these calls returned are 1, 2, ... in turn, each one once; and the stored count
\* is their number.
C17_NoLostUpdates ==
    /\ DOMAIN applied = DOMAIN counters
    /\ \A k \in DOMAIN counters :
          /\ counters[k] = Len(applied[k])
          /\ \A j \in 1..Len(applied[k]) : applied[k][j] = j

\* The two replicas have each incremented the same counter and neither has gone
\* on: they hold different counts, and the store holds both increments.
C17_Witness ==
    /\ pc[1] = "expire" /\ pc[2] = "expire"
    /\ RedisKey(dp[1]) = RedisKey(dp[2])
    /\ "failed" \notin attempted[1] \cup attempted[2]
    /\ breachCount[1] # breachCount[2]
    /\ counters[RedisKey(dp[1])] = 2

-----------------------------------------------------------------------------
(* C18 *)

\* No call has failed, no replica has crashed, no message was delivered twice and
\* no counter has expired.
Undisturbed == crashes = 0 /\ events = {}

\* C18: with two replicas and no disturbance, the readings 80, 85, 85, 85 of one
\* key (a run of exactly 3 breaching readings) never bring about a second alert,
\* and have brought about one alert when all of them are acknowledged.
C18_OneAlertPerRunTwoReplicas ==
    (Undisturbed /\ OnRun) =>
        /\ Len(alerts) <= 1
        /\ (Len(Log) = Len(RunReadings) /\ NumAcked = Len(RunReadings)) => Len(alerts) = 1

-----------------------------------------------------------------------------
(* C19 *)

\* The messages replica i holds unacknowledged.
Held(i) == {batch[i][j] : j \in 1..Len(batch[i])}

CrashOf(i) == crashes' = crashes + 1 /\ batch[i] # <<>> /\ batch'[i] = <<>>

\* C19: the crash of a replica leaves the messages it held unacknowledged and
\* pending for redelivery, and leaves the counters as they are, increments of
\* unacknowledged readings included; a fetch delivers pending messages whether or
\* not they were delivered before; and the increment of a redelivered reading
\* adds 1 to the stored count like any other.
C19_RedeliveryAppliesAgain ==
    [][ \A i \in Replicas :
          /\ CrashOf(i) =>
                /\ \A m \in Held(i) : status'[m] = "redeliver"
                /\ counters' = counters
          /\ (pc[i] = "fetch" /\ pc'[i] = "unmarshal") =>
                \A m \in 1..Len(status) :
                      status[m] = "redeliver" => (m \in Held(i)' /\ status'[m] = "inflight")
          /\ (pc[i] = "incr" /\ pc'[i] = "expire" /\ "failed" \notin attempted'[i]) =>
                LET k == <<"breach", "count", dp[i].device_id, dp[i].sensor_name>> IN
                counters'[k] = (IF k \in DOMAIN counters THEN counters[k] + 1 ELSE 1)
      ]_vars

\* One breaching reading was published, the replica crashed between its increment
\* and its acknowledgment, and the redelivery has raised the count to 2.
C19_Witness ==
    /\ Len(Log) = 1 /\ WellFormed(1) /\ BreachReading(Reading(1))
    /\ crashes = 1 /\ "fault" \notin events
    /\ <<"breach", "count", Reading(1).device_id, "temp1">> \in DOMAIN counters
    /\ counters[<<"breach", "count", Reading(1).device_id, "temp1">>] = 2

-----------------------------------------------------------------------------
(* C20 *)

\* The counter of the key (device, sensor).
CounterOf(d, s) == <<"breach", "count", d, s>>

ReadingKeys ==
    {CounterOf(p.device_id, p.sensor_name) : p \in Inputs}
        \cup {CounterOf("any", p.sensor_name) : p \in Inputs}

Same(k) ==
    /\ (k \in DOMAIN counters') = (k \in DOMAIN counters)
    /\ k \in DOMAIN counters => counters'[k] = counters[k]
    /\ (k \in ttl') = (k \in ttl)

\* C20: a step of processMessage on a reading leaves the counter and the expiry
\* of every key other than the reading's own (device_id, sensor_name) as they
\* are; the reading's own counter is the one an increment raises and a reset
\* deletes.
C20_PerKeyIndependence ==
    [][ \A i \in Replicas :
          (pc[i] \in {"incr", "expire", "publish", "del", "ack"} /\ pc'[i] # pc[i]
               /\ crashes' = crashes) =>
              LET own == CounterOf(dp[i].device_id, dp[i].sensor_name) IN
              /\ \A k \in (ReadingKeys \cup DOMAIN counters \cup DOMAIN counters') \ {own} :
                    Same(k)
              /\ (pc[i] = "incr" /\ "failed" \notin attempted'[i]) => own \in DOMAIN counters'
              /\ (pc[i] = "del" /\ "failed" \notin attempted'[i]) => own \notin DOMAIN counters'
      ]_vars

\* The non-breaching reading of one device is acknowledged and has reset that
\* device's counter, and the counter of the other device stands at 1.
C20_Witness ==
    /\ pc[1] = "fetch" /\ NumAcked = 3
    /\ "fault" \notin events /\ "expiry" \notin events /\ crashes = 0
    /\ \E m \in 1..Len(Log) : WellFormed(m) /\ ClearReading(Reading(m))
                                 /\ Reading(m).device_id = "machine-123"
    /\ CounterOf("machine-123", "temp1") \notin DOMAIN counters
    /\ CounterOf("machine-456", "temp1") \in DOMAIN counters

-----------------------------------------------------------------------------
(* C21 *)

\* The breaching readings of organization o, device d and sensor sn published so far.
OwnBreaches(o, d, sn) ==
    {m \in 1..Len(Log) :
        /\ WellFormed(m)
        /\ Reading(m).organization_id = o /\ Reading(m).device_id = d
        /\ Reading(m).sensor_name = sn /\ Reading(m).value > 80}

\* C21: as long as nothing was delivered twice, the count a breaching reading
\* obtains is at most the number of breaching readings its own organization has
\* published for that device and sensor, and an alert naming an organization is
\* backed by 3 breaching readings of that organization for the device: readings
\* of another organization neither raise a count nor bring about an alert.
C21_CrossTenantIsolation ==
    "redelivery" \notin events =>
        /\ \A i \in Replicas :
              (pc[i] \in {"expire", "publish"} /\ "failed" \notin attempted[i]) =>
                  breachCount[i] <= Cardinality(OwnBreaches(dp[i].organization_id,
                                                           dp[i].device_id,
                                                           dp[i].sensor_name))
        /\ \A a \in 1..Len(alerts) :
              Cardinality(OwnBreaches(alerts[a].organization_id, alerts[a].device_id,
                                      alerts[a].sensor_name)) >= 3

-----------------------------------------------------------------------------
(* C22 *)

\* Replica i has got an error from the alert publish of its current message.
PublishFailed(i) == "publish" \in attempted[i] /\ "published" \notin attempted[i]

OwnKey(i) == <<"breach", "count", dp[i].device_id, dp[i].sensor_name>>

\* What C22 and its amended form share: the publish is attempted with a count of 3
\* or more, and when it fails its step goes on to the acknowledgment and leaves
\* the counters as they are; the step that follows
\* acknowledges the message; a breaching reading reaches the reset of its counter
\* only with its publish succeeded; and a non-breaching reading is acknowledged
\* with its counter absent.
FailedPublishSteps ==
    /\ [][ \A i \in Replicas :
              /\ (pc[i] = "publish" /\ pc'[i] # "publish" /\ PublishFailed(i)') =>
                    (breachCount[i] >= 3 /\ pc'[i] = "ack" /\ counters' = counters)
              /\ (pc[i] = "ack" /\ pc'[i] # "ack") => status'[Cur(i)] = "acked"
          ]_vars
    /\ [](\A i \in Replicas :
              /\ (pc[i] = "del" /\ BreachReading(dp[i])) => "published" \in attempted[i]
              /\ (pc[i] = "ack" /\ ClearReading(dp[i])) => OwnKey(i) \notin DOMAIN counters)

-----------------------------------------------------------------------------
(* One acknowledgment decision for each delivery attempt *)

\* The number of acknowledgment calls (Ack or Nak) among the calls of a delivery.
Decisions(calls) == Occurrences(calls, "Ack") + Occurrences(calls, "Nak")

\* The persistence service's last processMessage called exactly one of Ack and
\* Nak, and every message it was handed stands as acknowledged or as to redeliver.
SinkDecidedOnce ==
    /\ sinkCalls # <<>> => Decisions(sinkCalls) = 1
    /\ \A m \in DOMAIN sinkStatus : sinkStatus[m] \in {"acked", "redeliver"}

\* A step of the analysis engine that does not crash it: when processMessage
\* returns (the message leaves the replica's batch), the message, in flight until
\* then, becomes acknowledged or to redeliver, and that from the parse branch or
\* the final ack only; any other step leaves the message's state alone.
EngineDecidesOnce ==
    \A i \in Replicas :
        (batch[i] # <<>> /\ crashes' = crashes) =>
            IF batch'[i] # batch[i]
            THEN /\ batch'[i] = Tail(batch[i])
                 /\ status[Cur(i)] = "inflight"
                 /\ pc[i] \in {"unmarshal", "ack"}
                 /\ status'[Cur(i)] = (IF pc[i] = "ack" THEN "acked" ELSE "redeliver")
            ELSE status'[Cur(i)] = status[Cur(i)]

\* C23: every delivery attempt handled by processMessage, in the analysis engine
\* and in the persistence service, ends with exactly one of Ack and Nak: never
\* both, never neither.
C23_ExactlyOneAckDecision ==
    /\ []SinkDecidedOnce
    /\ [][EngineDecidesOnce]_vars

\* Both services have refused (Nak) the message that does not parse and have
\* acknowledged a reading, without any crash.
C23_Witness ==
    /\ crashes = 0
    /\ \E m, n \in 1..Len(Log) :
          /\ Malformed(m) /\ WellFormed(n)
          /\ status[m] = "redeliver" /\ status[n] = "acked"
          /\ m \in DOMAIN sinkStatus /\ sinkStatus[m] = "redeliver"
          /\ n \in DOMAIN sinkStatus /\ sinkStatus[n] = "acked"
    /\ sinkCalls = <<"Nak">>

====
